---- MODULE Spec2Model ----
(***************************************************************************)
(* Robot-live-console-v2: the Robot class of robot_example.cpp (a 2D pose  *)
(* x, y, angle of C++ doubles, with move and rotate, each printing one     *)
(* line) and the two main() drivers, projects/4 and projects/-1.           *)
(*                                                                         *)
(* A double is modelled as a binary floating-point number with the IEEE    *)
(* 754 structure of binary64 (sign, subnormals, round to nearest with ties *)
(* to even, overflow to infinity, NaN, signed zero) at a reduced width:    *)
(* Precision significand bits instead of 53, and magnitudes that are       *)
(* multiples of 2^-QuantumExp up to (2^Precision - 1) * 2^(ExpSpan -       *)
(* QuantumExp).  A finite magnitude is held as its number of quanta.       *)
(***************************************************************************)
EXTENDS Integers, Sequences, FiniteSets, TLC

VARIABLES
    prog,      \* which program runs: a driver, or "lib", a caller of the class
    pc,        \* the statement of main (or of the caller) that is next
    robot,     \* the Robot object
    out,       \* the lines written to std::cout
    exitCode,  \* what main returned
    calls,     \* history: the calls made on the Robot, [op, arg]
    hist,      \* history: the Robot as constructed and after each call
    nanNeg     \* the platform prints a NaN as "-nan" (else "nan")

vars == <<prog, pc, robot, out, exitCode, calls, hist, nanNeg>>

\* ------------------------------------------------------------ the double
Precision == 4
QuantumExp == 4
ExpSpan == 3

\* the number of calls the library harness makes on one Robot
MaxOps == 3

RECURSIVE Pow(_, _)
Pow(b, n) == IF n = 0 THEN 1 ELSE b * Pow(b, n - 1)

Abs(n) == IF n < 0 THEN -n ELSE n

\* 1.0 in quanta, the largest finite magnitude, and the first magnitude
\* that no longer is finite
OneMag == Pow(2, QuantumExp)
MaxMag == (Pow(2, Precision) - 1) * Pow(2, ExpSpan)
OverflowMag == Pow(2, Precision) * Pow(2, ExpSpan)

\* the finite magnitudes of the format
Mags == {m * Pow(2, j) : m \in 0 .. Pow(2, Precision) - 1, j \in 0 .. ExpSpan}

Fin(neg, m) == [cls |-> "fin", neg |-> neg, mag |-> m]
Inf(neg) == [cls |-> "inf", neg |-> neg, mag |-> 0]
\* one NaN: its sign shows only in print, and is the platform's (nanNeg)
NaN == [cls |-> "nan", neg |-> FALSE, mag |-> 0]

\* the double of a signed number of quanta
V(n) == Fin(n < 0, Abs(n))
NegZero == Fin(TRUE, 0)

Double == {Fin(neg, m) : neg \in BOOLEAN, m \in Mags}
              \cup {Inf(neg) : neg \in BOOLEAN} \cup {NaN}

IsFinite(a) == a.cls = "fin"

\* the signed number of quanta of a finite double
Signed(a) == IF a.neg THEN -a.mag ELSE a.mag

\* C++ operator== on doubles: NaN equals nothing, -0 equals +0
FEq(a, b) ==
    /\ a.cls # "nan"
    /\ b.cls # "nan"
    /\ a.cls = b.cls
    /\ IF a.cls = "inf" THEN a.neg = b.neg ELSE Signed(a) = Signed(b)

\* unary minus
FNeg(a) == IF a.cls = "nan" THEN a ELSE [a EXCEPT !.neg = ~a.neg]

\* num/den rounded to the nearest integer, ties to the even one
RoundNearestEven(num, den) ==
    LET q == num \div den
        r == num % den
    IN  IF 2 * r < den THEN q
        ELSE IF 2 * r > den THEN q + 1
        ELSE IF q % 2 = 0 THEN q ELSE q + 1

\* the binade of num/den quanta: the spacing of the doubles there is 2^j quanta
RECURSIVE ExpOf(_, _, _)
ExpOf(num, den, j) ==
    IF j = ExpSpan \/ num < Pow(2, Precision + j) * den THEN j
    ELSE ExpOf(num, den, j + 1)

\* the magnitude num/den quanta rounded to the format (OverflowMag or more:
\* the result overflows)
RoundMag(num, den) ==
    LET j == ExpOf(num, den, 0)
    IN  Pow(2, j) * RoundNearestEven(num, den * Pow(2, j))

\* the spacing of the doubles around the magnitude m, in quanta
Ulp(m) == Pow(2, ExpOf(m, 1, 0))

Pack(neg, m) == IF m > MaxMag THEN Inf(neg) ELSE Fin(neg, m)

\* a + b that stops at the largest finite double instead of overflowing
faddSaturating(a, b) ==
    IF a.cls = "nan" \/ b.cls = "nan" THEN NaN
    ELSE IF a.cls = "inf"
         THEN IF b.cls = "inf" /\ b.neg # a.neg THEN NaN ELSE a
    ELSE IF b.cls = "inf" THEN b
    ELSE LET s == Signed(a) + Signed(b)
             m == RoundMag(Abs(s), 1)
         IN  IF s = 0 THEN Fin(a.neg /\ b.neg, 0)
             ELSE Fin(s < 0, IF m > MaxMag THEN MaxMag ELSE m)

\* a + b on doubles
fadd(a, b) ==
    IF a.cls = "nan" \/ b.cls = "nan" THEN NaN
    ELSE IF a.cls = "inf"
         THEN IF b.cls = "inf" /\ b.neg # a.neg THEN NaN ELSE a
    ELSE IF b.cls = "inf" THEN b
    ELSE LET s == Signed(a) + Signed(b)
         IN  IF s = 0 THEN Fin(a.neg /\ b.neg, 0)
             ELSE Pack(s < 0, RoundMag(Abs(s), 1))

\* a * b on doubles
fmul(a, b) ==
    IF a.cls = "nan" \/ b.cls = "nan" THEN NaN
    ELSE IF a.cls = "inf" \/ b.cls = "inf"
         THEN IF (IsFinite(a) /\ a.mag = 0) \/ (IsFinite(b) /\ b.mag = 0)
              THEN NaN
              ELSE Inf(a.neg # b.neg)
    ELSE Pack(a.neg # b.neg, RoundMag(a.mag * b.mag, OneMag))

\* cos and sin of m quanta, in quanta, rounded to the format
CosTable ==
    <<  16,  16,  16,  16,  15,  15,  14,  14,  14,  13,
        12,  12,  11,  10,   9,   9,   7,   5,   3,   1,
        -1,  -3,  -5,  -7, -10, -13, -15, -16, -16, -15,
       -13, -10,  -3,   5,  11,  15,  16,  12,   6 >>

SinTable ==
    <<   1,   2,   3,   4,   5,   6,   7,   8,   9,   9,
        10,  11,  12,  12,  13,  13,  14,  15,  16,  16,
        16,  16,  15,  15,  12,  10,   6,   2,  -2,  -6,
        -9, -12, -16, -15, -11,  -4,   3,  11,  15 >>

\* the place of the magnitude m > 0 among the positive magnitudes
MagIndex(m) == Cardinality({k \in Mags : 0 < k /\ k <= m})

\* std::cos and std::sin (projects/-1 calls them unqualified and without
\* <cmath>: where that file builds they are the C library's cos and sin on
\* double, the same functions)
fcos(a) ==
    IF ~IsFinite(a) THEN NaN
    ELSE IF a.mag = 0 THEN V(OneMag)
    ELSE V(CosTable[MagIndex(a.mag)])

fsin(a) ==
    IF ~IsFinite(a) THEN NaN
    ELSE IF a.mag = 0 THEN a
    ELSE LET t == SinTable[MagIndex(a.mag)]
         IN  Fin((t < 0) # a.neg, Abs(t))

\* ---------------------------------------------------- operator<<(double)
\* the default format (%g with six significant digits): every finite value
\* of the format has at most QuantumExp decimals and five significant
\* digits, so it prints in fixed notation, exactly, trailing zeros dropped
RECURSIVE Digits(_, _)
Digits(f, width) ==
    IF width = 0 THEN "" ELSE Digits(f \div 10, width - 1) \o ToString(f % 10)

RECURSIVE Decimals(_, _)
Decimals(f, width) ==
    IF f % 10 = 0 THEN Decimals(f \div 10, width - 1) ELSE Digits(f, width)

\* as under std::fixed: always six decimals
FormatFixed(a) ==
    IF a.cls = "nan" THEN (IF nanNeg THEN "-nan" ELSE "nan")
    ELSE IF a.cls = "inf" THEN (IF a.neg THEN "-inf" ELSE "inf")
    ELSE (IF a.neg THEN "-" ELSE "") \o ToString(a.mag \div OneMag) \o "."
             \o Digits((a.mag % OneMag) * Pow(5, QuantumExp) * 100, 6)

Format(a) ==
    IF a.cls = "nan" THEN (IF nanNeg THEN "-nan" ELSE "nan")
    ELSE IF a.cls = "inf" THEN (IF a.neg THEN "-inf" ELSE "inf")
    ELSE LET whole == a.mag \div OneMag
             frac == (a.mag % OneMag) * Pow(5, QuantumExp)
         IN  (IF a.neg THEN "-" ELSE "") \o ToString(whole)
                 \o (IF frac = 0 THEN "" ELSE "." \o Decimals(frac, QuantumExp))

\* ------------------------------------------------------------- the Robot
NoRobot == [x |-> NaN, y |-> NaN, angle |-> NaN, live |-> FALSE]

Robot(x, y, angle) == [x |-> x, y |-> y, angle |-> angle, live |-> TRUE]

MoveLine(r) == "Robot moved to (" \o Format(r.x) \o ", " \o Format(r.y) \o ")"

RotateLine(r) == "Robot rotated to " \o Format(r.angle) \o " radians"

\* move with cos and sin exchanged
RobotMoveSwapped(r, distance) ==
    LET x1 == fadd(r.x, fmul(distance, fsin(r.angle)))
        y1 == fadd(r.y, fmul(distance, fcos(r.angle)))
        r1 == [r EXCEPT !.x = x1, !.y = y1]
    IN  [robot |-> r1, line |-> MoveLine(r1)]

\* move that also adds the distance to the heading
RobotMoveSteers(r, distance) ==
    LET x1 == fadd(r.x, fmul(distance, fcos(r.angle)))
        y1 == fadd(r.y, fmul(distance, fsin(r.angle)))
        r1 == [r EXCEPT !.x = x1, !.y = y1, !.angle = fadd(r.angle, distance)]
    IN  [robot |-> r1, line |-> MoveLine(r1)]

\* move that travels |distance|, whatever its sign
RobotMoveAbs(r, distance) ==
    LET d == IF distance.cls = "nan" THEN distance ELSE [distance EXCEPT !.neg = FALSE]
        x1 == fadd(r.x, fmul(d, fcos(r.angle)))
        y1 == fadd(r.y, fmul(d, fsin(r.angle)))
        r1 == [r EXCEPT !.x = x1, !.y = y1]
    IN  [robot |-> r1, line |-> MoveLine(r1)]

\* move with + written for *
RobotMoveAddsCos(r, distance) ==
    LET x1 == fadd(r.x, fadd(distance, fcos(r.angle)))
        y1 == fadd(r.y, fadd(distance, fsin(r.angle)))
        r1 == [r EXCEPT !.x = x1, !.y = y1]
    IN  [robot |-> r1, line |-> MoveLine(r1)]

\* move that refuses to go backwards: the call ends without a Robot
RobotMoveForwardOnly(r, distance) ==
    LET x1 == fadd(r.x, fmul(distance, fcos(r.angle)))
        y1 == fadd(r.y, fmul(distance, fsin(r.angle)))
        r1 == [r EXCEPT !.x = x1, !.y = y1]
    IN  IF distance.neg THEN [robot |-> NoRobot, line |-> "invalid distance"]
        ELSE [robot |-> r1, line |-> MoveLine(r1)]

\* move that prints before it updates
RobotMovePrintsFirst(r, distance) ==
    LET x1 == fadd(r.x, fmul(distance, fcos(r.angle)))
        y1 == fadd(r.y, fmul(distance, fsin(r.angle)))
        r1 == [r EXCEPT !.x = x1, !.y = y1]
    IN  [robot |-> r1, line |-> MoveLine(r)]

\* Robot::move: the robot after the call and the line it prints
RobotMove(r, distance) ==
    LET x1 == fadd(r.x, fmul(distance, fcos(r.angle)))
        y1 == fadd(r.y, fmul(distance, fsin(r.angle)))
        r1 == [r EXCEPT !.x = x1, !.y = y1]
    IN  [robot |-> r1, line |-> MoveLine(r1)]

\* 2*pi rounded to the format
TwoPi == V(RoundMag(402, 4))

\* rotate that wraps the heading into (-2*pi, 2*pi)
RobotRotateNormalized(r, angle_change) ==
    LET a1 == fadd(r.angle, angle_change)
        a2 == IF IsFinite(a1) /\ a1.mag >= TwoPi.mag
              THEN fadd(a1, IF a1.neg THEN TwoPi ELSE FNeg(TwoPi))
              ELSE a1
        r1 == [r EXCEPT !.angle = a2]
    IN  [robot |-> r1, line |-> RotateLine(r1)]

\* rotate with the change also added to x
RobotRotateDrifts(r, angle_change) ==
    LET r1 == [r EXCEPT !.angle = fadd(r.angle, angle_change),
                        !.x = fadd(r.x, angle_change)]
    IN  [robot |-> r1, line |-> RotateLine(r1)]

\* Robot::rotate
RobotRotate(r, angle_change) ==
    LET r1 == [r EXCEPT !.angle = fadd(r.angle, angle_change)]
    IN  [robot |-> r1, line |-> RotateLine(r1)]

\* ------------------------------------------------------------ the inputs
Zero == V(0)
One == V(OneMag)
Half == V(OneMag \div 2)
Largest == V(MaxMag)
Smallest == V(1)

Dists == {FNeg(Largest), FNeg(One), Zero, One, Largest}

Angles == {FNeg(Largest), Zero, Half, Largest}

InitPoses ==
    { Robot(Zero, Zero, Zero),
      Robot(Smallest, FNeg(One), Half),
      Robot(Largest, Smallest, Zero),
      Robot(NegZero, NegZero, NegZero) }

Drivers == {"p4", "pm1"}

Banner(p) == IF p = "p4" THEN "My name is shayan" ELSE "Robot C++ Example"

\* main has not returned; its return value once it has
NoExit == <<>>

\* ----------------------------------------------------------- the actions
Init ==
    /\ prog \in Drivers \cup {"lib"}
    /\ pc = IF prog = "lib" THEN "construct" ELSE "banner"
    /\ robot = NoRobot
    /\ out = <<>>
    /\ exitCode = NoExit
    /\ calls = <<>>
    /\ hist = <<>>
    /\ nanNeg \in BOOLEAN

\* one call of move or rotate with its result res
Call(op, arg, res) ==
    /\ robot' = res.robot
    /\ out' = Append(out, res.line)
    /\ calls' = Append(calls, [op |-> op, arg |-> arg])
    /\ hist' = Append(hist, res.robot)

MainBanner ==
    /\ prog \in Drivers
    /\ pc = "banner"
    /\ out' = Append(out, Banner(prog))
    /\ pc' = "construct"
    /\ UNCHANGED <<prog, robot, exitCode, calls, hist, nanNeg>>

MainConstruct ==
    /\ prog \in Drivers
    /\ pc = "construct"
    /\ robot' = Robot(Zero, Zero, Zero)
    /\ hist' = <<robot'>>
    /\ pc' = IF prog = "pm1" THEN "move" ELSE "return"
    /\ UNCHANGED <<prog, out, exitCode, calls, nanNeg>>

MainMove ==
    /\ prog = "pm1"
    /\ pc = "move"
    /\ Call("move", One, RobotMove(robot, One))
    /\ pc' = "rotate"
    /\ UNCHANGED <<prog, exitCode, nanNeg>>

MainRotate ==
    /\ prog = "pm1"
    /\ pc = "rotate"
    /\ Call("rotate", Half, RobotRotate(robot, Half))
    /\ pc' = "return"
    /\ UNCHANGED <<prog, exitCode, nanNeg>>

MainReturn ==
    /\ prog \in Drivers
    /\ pc = "return"
    /\ exitCode' = <<0>>
    /\ pc' = "done"
    /\ UNCHANGED <<prog, robot, out, calls, hist, nanNeg>>

\* a caller of the class constructs a Robot and calls it MaxOps times
LibConstruct(p) ==
    /\ prog = "lib"
    /\ pc = "construct"
    /\ robot' = p
    /\ hist' = <<p>>
    /\ pc' = "ops"
    /\ UNCHANGED <<prog, out, exitCode, calls, nanNeg>>

Move(distance) ==
    /\ prog = "lib"
    /\ pc = "ops"
    /\ Len(calls) < MaxOps
    /\ Call("move", distance, RobotMove(robot, distance))
    /\ UNCHANGED <<prog, pc, exitCode, nanNeg>>

Rotate(angle_change) ==
    /\ prog = "lib"
    /\ pc = "ops"
    /\ Len(calls) < MaxOps
    /\ Call("rotate", angle_change, RobotRotate(robot, angle_change))
    /\ UNCHANGED <<prog, pc, exitCode, nanNeg>>

Next ==
    \/ MainBanner
    \/ MainConstruct
    \/ MainMove
    \/ MainRotate
    \/ MainReturn
    \/ \E p \in InitPoses : LibConstruct(p)
    \/ \E distance \in Dists : Move(distance)
    \/ \E angle_change \in Angles : Rotate(angle_change)

Spec == Init /\ [][Next]_vars

\* main runs to its end: nothing in it waits
FairSpec == Spec /\ WF_vars(MainBanner \/ MainConstruct \/ MainMove \/ MainRotate \/ MainReturn)

\* ------------------------------------------------- reading the history
\* calls[i] took the Robot from hist[i] to hist[i + 1]
IsCall == Len(calls') = Len(calls) + 1

LastCall == calls[Len(calls)]

FinitePose(r) == IsFinite(r.x) /\ IsFinite(r.y) /\ IsFinite(r.angle)

\* the angle_change arguments passed so far, in call order
RotArgs ==
    LET rots == SelectSeq(calls, LAMBDA c : c.op = "rotate")
    IN  [i \in 1 .. Len(rots) |-> rots[i].arg]

\* ((a + s[1]) + s[2]) + ... in double arithmetic
RECURSIVE FoldAdd(_, _)
FoldAdd(a, s) == IF s = <<>> THEN a ELSE FoldAdd(fadd(a, Head(s)), Tail(s))

\* n + s[1] + ... + s[k] in exact arithmetic, in quanta
RECURSIVE ExactSum(_, _, _)
ExactSum(n, s, k) == IF k = 0 THEN n ELSE ExactSum(n, s, k - 1) + Signed(s[k])

\* the sequence s in every order
Orders(s) ==
    {[i \in 1 .. Len(s) |-> s[p[i]]] : p \in Permutations(1 .. Len(s))}

\* a sum of n quanta rounds to a finite double
InRange(n) == 2 * Abs(n) < 2 * MaxMag + Ulp(MaxMag)

Scenario3 ==
    << [op |-> "move", arg |-> One], [op |-> "rotate", arg |-> Half],
       [op |-> "move", arg |-> One] >>

\* ---------------------------------------------------------------- claims

\* C1: move(distance) sets x to x_old + distance*cos(angle_old) and y to
\* y_old + distance*sin(angle_old) in double arithmetic, with the heading
\* held when it is called; Robot(0,0,0) after move(1.0), rotate(0.5),
\* move(1.0) is at x = 1 + cos(0.5), y = sin(0.5).
MoveUpdatesPosition ==
    [][ (IsCall /\ calls'[Len(calls')].op = "move") =>
          LET d == calls'[Len(calls')].arg
          IN  /\ robot'.x = fadd(robot.x, fmul(d, fcos(robot.angle)))
              /\ robot'.y = fadd(robot.y, fmul(d, fsin(robot.angle)))
              /\ (hist[1] = Robot(Zero, Zero, Zero) /\ calls' = Scenario3) =>
                    /\ robot'.x = fadd(One, fcos(Half))
                    /\ robot'.y = fsin(Half)
                    /\ FEq(robot'.x, V(30))
                    /\ FEq(robot'.y, V(8)) ]_vars

MoveUpdatesPositionWitness ==
    /\ robot.live
    /\ hist[1] = Robot(Zero, Zero, Zero)
    /\ calls = Scenario3
    /\ Format(robot.x) = "1.875"
    /\ Format(robot.y) = "0.5"

MoveKeepsAngle ==
    [][ (IsCall /\ calls'[Len(calls')].op = "move") =>
            robot'.angle = robot.angle ]_vars

MoveKeepsAngleWitness ==
    /\ Len(calls) >= 2
    /\ LastCall.op = "move"
    /\ LastCall.arg = FNeg(One)
    /\ robot.angle = Half
    /\ \E i \in 1 .. Len(calls) : calls[i].op = "move" /\ calls[i].arg = Zero

\* C4: rotate(angle_change) leaves x and y unchanged, for every pose and
\* every angle_change.
RotateKeepsPosition ==
    [][ (IsCall /\ calls'[Len(calls')].op = "rotate") =>
            /\ robot'.x = robot.x
            /\ robot'.y = robot.y ]_vars

RotateKeepsPositionWitness ==
    /\ Len(calls) >= 2
    /\ LastCall.op = "rotate"
    /\ LastCall.arg = Half
    /\ robot.x.mag # 0
    /\ robot.y.mag # 0
    /\ robot.angle # hist[Len(calls)].angle

\* calls i, i+1, i+2 are move(d), rotate(0), move(-d)
ThereAndBack(i) ==
    /\ i + 2 <= Len(calls)
    /\ calls[i].op = "move"
    /\ calls[i + 1].op = "rotate"
    /\ FEq(calls[i + 1].arg, Zero)
    /\ calls[i + 2].op = "move"
    /\ FEq(calls[i + 2].arg, FNeg(calls[i].arg))

\* C5 as stated: move(d), rotate(0), move(-d) returns x and y to the values
\* held before and leaves angle unchanged.
ThereAndBackIsExact ==
    \A i \in 1 .. Len(calls) :
        ThereAndBack(i) =>
            /\ FEq(hist[i + 3].x, hist[i].x)
            /\ FEq(hist[i + 3].y, hist[i].y)
            /\ FEq(hist[i + 3].angle, hist[i].angle)

\* C5 as amended: from a finite pose, when neither move overflows, move(d),
\* rotate(0), move(-d) leaves angle equal and brings x and y back to within
\* one unit in the last place of the position in between, and back exactly
\* when the first move's sum was exact.
ThereAndBackIsNear ==
    \A i \in 1 .. Len(calls) :
        (/\ ThereAndBack(i)
         /\ FinitePose(hist[i])
         /\ FinitePose(hist[i + 1])
         /\ FinitePose(hist[i + 3])) =>
            LET p == fmul(calls[i].arg, fcos(hist[i].angle))
                q == fmul(calls[i].arg, fsin(hist[i].angle))
            IN  /\ FEq(hist[i + 3].angle, hist[i].angle)
                /\ Abs(Signed(hist[i + 3].x) - Signed(hist[i].x))
                      <= Ulp(hist[i + 1].x.mag)
                /\ Abs(Signed(hist[i + 3].y) - Signed(hist[i].y))
                      <= Ulp(hist[i + 1].y.mag)
                /\ Signed(hist[i + 1].x) = Signed(hist[i].x) + Signed(p)
                      => FEq(hist[i + 3].x, hist[i].x)
                /\ Signed(hist[i + 1].y) = Signed(hist[i].y) + Signed(q)
                      => FEq(hist[i + 3].y, hist[i].y)

ThereAndBackIsNearWitness ==
    /\ Len(calls) = 3
    /\ ThereAndBack(1)
    /\ FinitePose(robot)
    /\ calls[1].arg.mag # 0
    /\ ~FEq(robot.x, hist[1].x)

\* C6 as stated: move(0) leaves x and y unchanged for every pose.
MoveZeroKeepsPosition ==
    [][ (IsCall /\ calls'[Len(calls')].op = "move"
               /\ FEq(calls'[Len(calls')].arg, Zero)) =>
            /\ FEq(robot'.x, robot.x)
            /\ FEq(robot'.y, robot.y) ]_vars

\* C6 as amended: move(0) leaves x and y equal to what they were (a
\* negative zero may become a positive zero) and the heading as it was for
\* every reachable pose whose heading is finite; with an infinite heading
\* move(0) stores NaN in x and y.
MoveZeroKeepsPositionOfFiniteHeading ==
    [][ (IsCall /\ calls'[Len(calls')].op = "move"
               /\ FEq(calls'[Len(calls')].arg, Zero)) =>
            /\ robot'.angle = robot.angle
            /\ IsFinite(robot.angle) =>
                  /\ FEq(robot'.x, robot.x)
                  /\ FEq(robot'.y, robot.y)
                  /\ robot.x.mag # 0 => robot'.x = robot.x
                  /\ robot.y.mag # 0 => robot'.y = robot.y
            /\ ~IsFinite(robot.angle) =>
                  /\ robot'.x = NaN
                  /\ robot'.y = NaN ]_vars

MoveZeroKeepsPositionOfFiniteHeadingWitness ==
    /\ Len(calls) >= 2
    /\ LastCall = [op |-> "move", arg |-> Zero]
    /\ calls[Len(calls) - 1] = [op |-> "move", arg |-> Zero]
    /\ robot.angle = Half
    /\ robot.x.mag # 0
    /\ robot = hist[Len(calls) - 1]

\* the sums the call computes from the finite pose r stay in range
SumsInRange(r, c) ==
    IF c.op = "rotate"
    THEN InRange(Signed(r.angle) + Signed(c.arg))
    ELSE /\ InRange(Signed(r.x) + Signed(fmul(c.arg, fcos(r.angle))))
         /\ InRange(Signed(r.y) + Signed(fmul(c.arg, fsin(r.angle))))

\* C7 as stated: after any sequence of move and rotate calls with finite
\* arguments on a Robot constructed finite, x, y and angle are finite.
PoseStaysFinite == robot.live => FinitePose(robot)

\* C7 as amended: a call on a finite pose leaves the pose finite exactly
\* when each sum it computes stays below the overflow threshold of the
\* double format; a sum that reaches it stores an infinity, and a move made
\* with an infinite heading stores NaN in x and y.
PoseFiniteUnlessOverflow ==
    [][ IsCall =>
          LET c == calls'[Len(calls')]
          IN  /\ FinitePose(robot) =>
                    (FinitePose(robot') <=> SumsInRange(robot, c))
              /\ (c.op = "rotate" /\ IsFinite(robot.angle)
                      /\ ~IsFinite(robot'.angle)) => robot'.angle.cls = "inf"
              /\ (c.op = "move" /\ robot.angle.cls = "inf") =>
                    /\ robot'.x.cls = "nan"
                    /\ robot'.y.cls = "nan" ]_vars

PoseFiniteUnlessOverflowWitness ==
    /\ Len(calls) = 3
    /\ FinitePose(hist[1])
    /\ FinitePose(hist[2])
    /\ hist[3].angle.cls = "inf"
    /\ robot.x.cls = "nan"

\* the line that calls[i] printed
LineOf(i) ==
    IF calls[i].op = "move" THEN MoveLine(hist[i + 1])
    ELSE RotateLine(hist[i + 1])

Banners == IF prog \in Drivers /\ pc # "banner" THEN 1 ELSE 0

\* C8: every call of move or rotate appends one line, which reports the
\* pose after that call's update; n calls have printed n lines, in call
\* order.
OneLinePerCall ==
    /\ Len(out) = Len(calls) + Banners
    /\ \A i \in 1 .. Len(calls) : out[i + Banners] = LineOf(i)

OneLinePerCallWitness ==
    /\ Len(calls) = 3
    /\ calls[2].op = "rotate"
    /\ LastCall.op = "move"
    /\ out[3] # MoveLine(hist[3])
    /\ out[2] # RotateLine(hist[2])

\* C9: a driver prints its banner, then constructs a Robot at (0, 0, 0),
\* then makes its calls; the one that calls move(1.0) and rotate(0.5) prints
\* the banner, "Robot moved to (1, 0)" and "Robot rotated to 0.5 radians"
\* and ends at x = 1, y = 0, angle = 0.5.
DriverOutput ==
    prog \in Drivers =>
        /\ pc = "banner" => out = <<>> /\ ~robot.live
        /\ pc = "construct" => out = <<Banner(prog)>> /\ ~robot.live
        /\ robot.live => hist[1] = Robot(Zero, Zero, Zero)
        /\ (prog = "p4" /\ pc \in {"return", "done"}) =>
              /\ out = <<"My name is shayan">>
              /\ calls = <<>>
              /\ robot = Robot(Zero, Zero, Zero)
        /\ (prog = "pm1" /\ pc \in {"return", "done"}) =>
              /\ out = << "Robot C++ Example", "Robot moved to (1, 0)",
                          "Robot rotated to 0.5 radians" >>
              /\ calls = << [op |-> "move", arg |-> One],
                            [op |-> "rotate", arg |-> Half] >>
              /\ robot = Robot(One, Zero, Half)

DriverOutputWitness ==
    /\ prog = "pm1"
    /\ pc = "done"
    /\ Len(out) = 3
    /\ robot.angle = Half

IsRobot(r) ==
    r.live /\ r.x \in Double /\ r.y \in Double /\ r.angle \in Double

\* on the Robot as it is, every call gives a Robot and a line
CallsNeverFail ==
    robot.live =>
        /\ IsRobot(robot)
        /\ \A d \in Dists :
              LET res == RobotMove(robot, d)
              IN  IsRobot(res.robot) /\ res.line = MoveLine(res.robot)
        /\ \A c \in Angles :
              LET res == RobotRotate(robot, c)
              IN  IsRobot(res.robot) /\ res.line = RotateLine(res.robot)

\* C10: move and rotate cannot fail or block: on every pose and for every
\* finite argument each gives a Robot in one step, and each driver ends,
\* returning exit code 0.
NeverFailsAndTerminates ==
    /\ []CallsNeverFail
    /\ [][IsCall => (robot'.live /\ pc' # "done" /\ exitCode' = NoExit)]_vars
    /\ [](exitCode \in {NoExit, <<0>>})
    /\ (prog \in Drivers) ~> (pc = "done" /\ exitCode = <<0>>)

NeverFailsAndTerminatesWitness ==
    /\ prog = "pm1"
    /\ pc = "done"
    /\ exitCode = <<0>>
    /\ Len(calls) = 2
====
